---- MODULE Spec2Model ----
(***************************************************************************)
(* OllamaUI: the chat-streaming pipeline.                                  *)
(*                                                                         *)
(*   Record Store       MemStorage                (src/unnamed/part_000)   *)
(*   Inference Client   OllamaClient.streamChat   (message-cache.ts)       *)
(*   Stream Relay       POST /api/conversations/:id/chat                   *)
(*   Session Controller ChatArea.handleSubmit     (src/unnamed/part_005)   *)
(*                                                                         *)
(* Text is a sequence of tokens.  Message text is a sequence of one-       *)
(* character strings.  Text on a network connection is a sequence of wire  *)
(* tokens [k, v]: a newline, a blank, the "data: " prefix, non-JSON junk,  *)
(* the JSON text of an object v, or the first / second half of that JSON   *)
(* text (what a network read leaves when it ends inside the object).       *)
(*                                                                         *)
(* One action is one run of the event loop: a handler or continuation from *)
(* the I/O event that resumes it to the next await on I/O.  An HTTP        *)
(* exchange whose response the client merely awaits is taken at the moment *)
(* the server handles it.                                                  *)
(***************************************************************************)
EXTENDS Integers, Sequences, FiniteSets, TLC

\* ------------------------------------------------------------------ bounds
MaxConvs == 2       \* conversation ids the store hands out
MaxReqs  == 2       \* chat requests (one relay session each)
ApiConvs == 1       \* conversations other HTTP clients create
ApiPosts == 1       \* messages other HTTP clients post

ConvIds == 1 .. MaxConvs
NoConv  == 0        \* "no conversation": route "/" , conversationId undefined
Reqs    == 1 .. MaxReqs

\* ------------------------------------------------------------------ state
\* Record Store: the conversations and messages Maps in insertion order, and the
\* next fresh id of each (randomUUID)
VARIABLES conversations, messages, nextConv, nextMsg
\* sc[r]: the streamChat generator of chat request r and the part of the backend's
\*        body it has not read;  rl[r]: the relay handler of chat request r;
\* wire[r]: text written to the response of r that its reader has not read yet
VARIABLES sc, rl, wire
\* route: the conversationId of the page shown (NoConv on "/"); input, isGenerating,
\* streamingMessage: the state of ChatArea, which the router keeps across
\* conversations; sub[s]: the s-th accepted call of handleSubmit, which talks to
\* chat request s; tick: flips on every call of handleSubmit
VARIABLES route, input, isGenerating, streamingMessage, sub, tick
\* clock: what new Date() returns; models, settings: the other two Maps of the
\* Record Store in insertion order, with the next fresh id of each; res: the
\* status of the response to the last request of the store's HTTP client;
\* asked: the paths of the inference backend the handler of that request
\* fetched; health: the ollama field of the last answer of GET /api/health
\* (none yet: the empty sequence)
VARIABLES clock, models, settings, nextModel, nextSetting, res, asked, health

\* the state the chat pipeline and the page leave alone
other == << clock, models, settings, nextModel, nextSetting, res, asked, health >>

\* ------------------------------------------------------------------- text
Empty == << >>

NoObj == [content |-> Empty, done |-> FALSE, error |-> Empty]

Tok(k, v) == [k |-> k, v |-> v]
NL        == Tok("nl", NoObj)
Blank     == Tok("sp", NoObj)
Junk      == Tok("junk", NoObj)
DataPfx   == Tok("data", NoObj)
Json(o)   == Tok("json", o)
JsonHead(o) == Tok("head", o)
JsonTail(o) == Tok("tail", o)

\* text.split('\n')
RECURSIVE SplitNL(_)
SplitNL(text) ==
  IF text = << >> THEN << << >> >>
  ELSE IF Head(text).k = "nl" THEN << << >> >> \o SplitNL(Tail(text))
  ELSE LET rest == SplitNL(Tail(text))
       IN  << << Head(text) >> \o rest[1] >> \o Tail(rest)

\* line.trim() is the empty string
IsBlankLine(line) == \A i \in 1 .. Len(line) : line[i].k = "sp"

\* chunk.split('\n').filter(line => line.trim())
NonBlankLines(chunk) == SelectSeq(SplitNL(chunk), LAMBDA l : ~IsBlankLine(l))

RECURSIVE StripBlanks(_)
StripBlanks(line) ==
  IF line = << >> THEN line
  ELSE IF Head(line).k = "sp" THEN StripBlanks(Tail(line))
  ELSE IF line[Len(line)].k = "sp" THEN StripBlanks(SubSeq(line, 1, Len(line) - 1))
  ELSE line

\* JSON.parse(text) returns (does not throw); JSON.parse skips outer white space
ParseOk(text) ==
  LET t == StripBlanks(text)
  IN  \/ Len(t) = 1 /\ t[1].k = "json"
      \/ Len(t) = 2 /\ t[1].k = "head" /\ t[2].k = "tail" /\ t[1].v = t[2].v

\* the value JSON.parse(text) returns
ParseVal(text) == StripBlanks(text)[1].v

\* the network ends a read after n whole tokens, or (inside = TRUE) inside the
\* JSON text that follows them
CanCut(text, n, inside) ==
  /\ n \in 0 .. Len(text)
  /\ inside => n < Len(text) /\ text[n + 1].k = "json"
  /\ ~inside => n > 0

ChunkOf(text, n, inside) ==
  SubSeq(text, 1, n) \o (IF inside THEN << JsonHead(text[n + 1].v) >> ELSE << >>)

RestOf(text, n, inside) ==
  IF inside THEN << JsonTail(text[n + 1].v) >> \o SubSeq(text, n + 2, Len(text))
  ELSE SubSeq(text, n + 1, Len(text))

\* ------------------------------------------------------------ Record Store

\* Array.prototype.sort with a comparator a - b on the numbers keys[i]: a stable
\* sort. An element goes behind those with a smaller key and behind the earlier
\* ones with the same key
Rank(keys, i) ==
  Cardinality({ j \in 1 .. Len(keys) :
                  keys[j] < keys[i] \/ (keys[j] = keys[i] /\ j < i) }) + 1

StableSort(q, keys) ==
  [p \in 1 .. Len(q) |-> q[CHOOSE i \in 1 .. Len(q) : Rank(keys, i) = p]]

\* a.timestamp - b.timestamp: the earliest first
ByTimestamp(q) == StableSort(q, [i \in 1 .. Len(q) |-> q[i].timestamp])

\* b.updatedAt - a.updatedAt: the latest first
ByUpdatedAtDesc(q) == StableSort(q, [i \in 1 .. Len(q) |-> 0 - q[i].updatedAt])

\* a store that sorts by timestamp without filtering by conversation
getMessages_NoFilter(conversationId) == ByTimestamp(messages)

\* MemStorage.getMessages: the messages of the conversation, sorted by timestamp
getMessages(conversationId) ==
  ByTimestamp(SelectSeq(messages, LAMBDA m : m.conversationId = conversationId))

\* a store that returns the conversations as the Map holds them
getConversations_Unsorted == conversations

\* MemStorage.getConversations: all conversations, the latest updatedAt first
getConversations == ByUpdatedAtDesc(conversations)

getConversation(id) == { i \in 1 .. Len(conversations) : conversations[i].id = id }

HasConversation(id) == getConversation(id) # {}

\* MemStorage.createMessage: {...insertMessage, id, timestamp}; messages.set(id, message)
createMessage(msgs, id, conversationId, role, content) ==
  Append(msgs, [id |-> id, conversationId |-> conversationId,
                role |-> role, content |-> content, timestamp |-> clock])

\* MemStorage.createConversation
createConversation(convs, id, title, model) ==
  Append(convs, [id |-> id, title |-> title, model |-> model,
                 createdAt |-> clock, updatedAt |-> clock])

\* a store that deletes a conversation and keeps its messages
deleteConversationMsgs_NoCascade(msgs, id) == msgs

\* MemStorage.deleteConversation: the conversation and, if it was there, all its messages
deleteConversationMsgs(msgs, id) ==
  IF HasConversation(id)
  THEN SelectSeq(msgs, LAMBDA m : m.conversationId # id)
  ELSE msgs

deleteConversationConvs(convs, id) == SelectSeq(convs, LAMBDA c : c.id # id)

\* MemStorage.initializeDefaultSettings: the five settings of a new store
defaultKeys ==
  << "ollama_url", "temperature", "max_tokens", "system_prompt", "auto_save" >>

defaultValues ==
  << "http://localhost:11434", "0.7", "1024", "You are a helpful AI assistant.", "true" >>

defaultSettings ==
  [i \in 1 .. Len(defaultKeys) |->
     [id |-> i, key |-> defaultKeys[i], value |-> defaultValues[i], updatedAt |-> 0]]

\* no response yet
NoStatus == 0

\* ------------------------------------------------- Inference Client, Relay

\* {message: {content: c}, done: d}, one line of the backend's NDJSON body
Obj(c, d) == [content |-> c, done |-> d, error |-> Empty]
Line(o)   == << Json(o), NL >>

ContentFrame(chunk) == [content |-> chunk, done |-> FALSE, error |-> Empty]
DoneFrame  == [content |-> Empty, done |-> TRUE, error |-> Empty]
ErrorFrame == [content |-> Empty, done |-> FALSE,
               error |-> << "Failed to generate response" >>]

\* `data: ${JSON.stringify(frame)}\n\n`
SseEvent(frame) == << DataPfx, Json(frame), NL, NL >>

RECURSIVE SseText(_)
SseText(frames) ==
  IF frames = << >> THEN << >> ELSE SseEvent(Head(frames)) \o SseText(Tail(frames))

\* a generator that a line of invalid JSON ends
RECURSIVE ScanLines_StopAtJunk(_)
ScanLines_StopAtJunk(lines) ==
  IF lines = << >> THEN [yields |-> << >>, returned |-> FALSE]
  ELSE IF ~ParseOk(Head(lines)) THEN [yields |-> << >>, returned |-> TRUE]
  ELSE LET data == ParseVal(Head(lines))
           y    == IF data.content # Empty THEN << data.content >> ELSE << >>
       IN  IF data.done THEN [yields |-> y, returned |-> TRUE]
           ELSE LET rest == ScanLines_StopAtJunk(Tail(lines))
                IN  [yields |-> y \o rest.yields, returned |-> rest.returned]

\* a generator that reads on after a line with done
RECURSIVE ScanLines_IgnoreDone(_)
ScanLines_IgnoreDone(lines) ==
  IF lines = << >> THEN [yields |-> << >>, returned |-> FALSE]
  ELSE IF ~ParseOk(Head(lines)) THEN ScanLines_IgnoreDone(Tail(lines))
  ELSE LET data == ParseVal(Head(lines))
           y    == IF data.content # Empty THEN << data.content >> ELSE << >>
           rest == ScanLines_IgnoreDone(Tail(lines))
       IN  [yields |-> y \o rest.yields, returned |-> rest.returned]

\* streamChat, lines 120-130: the fragments the lines of one read yield, and
\* whether a line with done made the generator return
RECURSIVE ScanLines(_)
ScanLines(lines) ==
  IF lines = << >> THEN [yields |-> << >>, returned |-> FALSE]
  ELSE IF ~ParseOk(Head(lines)) THEN ScanLines(Tail(lines))
  ELSE LET data == ParseVal(Head(lines))
           y    == IF data.content # Empty THEN << data.content >> ELSE << >>
       IN  IF data.done THEN [yields |-> y, returned |-> TRUE]
           ELSE LET rest == ScanLines(Tail(lines))
                IN  [yields |-> y \o rest.yields, returned |-> rest.returned]

\* a relay whose accumulator keeps only the last fragment
RelayOnChunk_Overwrite(rec, chunk) ==
  [rec EXCEPT !.assistantMessage = chunk,
              !.frames = Append(@, ContentFrame(chunk))]

\* the body of the relay's for-await loop, lines 247-248
RelayOnChunk(rec, chunk) ==
  [rec EXCEPT !.assistantMessage = @ \o chunk,
              !.frames = Append(@, ContentFrame(chunk))]

RECURSIVE RelayLoop(_, _)
RelayLoop(rec, yields) ==
  IF yields = << >> THEN rec
  ELSE RelayLoop(RelayOnChunk(rec, Head(yields)), Tail(yields))

\* what the handler wrote to the response in this step
Written(r, rec) == SseText(SubSeq(rec.frames, Len(rl[r].frames) + 1, Len(rec.frames)))

\* res.write(text): the text travels to the reader of the response, if there is one
Send(r, text) == [wire EXCEPT ![r] = IF sub[r].pc = "read" THEN @ \o text ELSE << >>]

IdleRelay ==
  [pc |-> "idle", conversationId |-> NoConv, chatMessages |-> << >>,
   assistantMessage |-> Empty, frames |-> << >>, saved |-> << >>]

IdleStream == [pc |-> "none", body |-> << >>, yielded |-> << >>]

\* POST /api/conversations/:id/chat, lines 224-246: read the history, open the
\* event stream, call streamChat, whose fetch is then in flight
RelayStart(r, conversationId) ==
  /\ rl[r].pc = "idle"
  /\ rl' = [rl EXCEPT ![r] =
              [IdleRelay EXCEPT !.pc = "streaming",
                                !.conversationId = conversationId,
                                !.chatMessages =
                                   [i \in 1 .. Len(getMessages(conversationId)) |->
                                      [role |-> getMessages(conversationId)[i].role,
                                       content |-> getMessages(conversationId)[i].content]]]]
  /\ sc' = [sc EXCEPT ![r] = [IdleStream EXCEPT !.pc = "fetch"]]
  /\ UNCHANGED << wire, conversations, messages, nextConv, nextMsg >>

\* a relay that does not store a reply the conversation already holds
RelaySave_IfAbsent(r, rec) ==
  LET msgs == createMessage(messages, nextMsg, rec.conversationId,
                            "assistant", rec.assistantMessage)
      held == \E i \in 1 .. Len(messages) :
                /\ messages[i].conversationId = rec.conversationId
                /\ messages[i].role = "assistant"
                /\ messages[i].content = rec.assistantMessage
  IN  /\ rl' = [rl EXCEPT ![r] = [rec EXCEPT !.pc = "saved",
                                             !.saved = IF held THEN @
                                                       ELSE Append(@, msgs[Len(msgs)])]]
      /\ messages' = IF held THEN messages ELSE msgs
      /\ nextMsg' = IF held THEN nextMsg ELSE nextMsg + 1
      /\ wire' = Send(r, Written(r, rec))
      /\ UNCHANGED << conversations, nextConv >>

\* lines 251-256: the loop ended normally; storage.createMessage. saved is the
\* log of the messages this request handed to the store
RelaySave(r, rec) ==
  LET msgs == createMessage(messages, nextMsg, rec.conversationId,
                            "assistant", rec.assistantMessage)
  IN  /\ rl' = [rl EXCEPT ![r] = [rec EXCEPT !.pc = "saved",
                                             !.saved = Append(@, msgs[Len(msgs)])]]
      /\ messages' = msgs
      /\ nextMsg' = nextMsg + 1
      /\ wire' = Send(r, Written(r, rec))
      /\ UNCHANGED << conversations, nextConv >>

\* a relay that stores what it accumulated before the failure
RelayFail_Partial(r, rec) ==
  LET msgs == createMessage(messages, nextMsg, rec.conversationId,
                            "assistant", rec.assistantMessage)
  IN  /\ rl' = [rl EXCEPT ![r] = [rec EXCEPT !.pc = "closed",
                                             !.frames = Append(@, ErrorFrame),
                                             !.saved = Append(@, msgs[Len(msgs)])]]
      /\ messages' = msgs
      /\ nextMsg' = nextMsg + 1
      /\ wire' = Send(r, Written(r, rec) \o SseEvent(ErrorFrame))
      /\ UNCHANGED << conversations, nextConv >>

\* a relay that writes the done frame after its try/catch, on both paths
RelayFail_ThenDone(r, rec) ==
  /\ rl' = [rl EXCEPT ![r] = [rec EXCEPT !.pc = "closed",
                                         !.frames = @ \o << ErrorFrame, DoneFrame >>]]
  /\ wire' = Send(r, Written(r, rec) \o SseEvent(ErrorFrame) \o SseEvent(DoneFrame))
  /\ UNCHANGED << conversations, messages, nextConv, nextMsg >>

\* a server that a failed stream takes down: every response ends with it
RelayFail_Crash(r, rec) ==
  /\ rl' = [q \in Reqs |->
              IF q = r THEN [rec EXCEPT !.pc = "closed", !.frames = Append(@, ErrorFrame)]
              ELSE [rl[q] EXCEPT !.pc = "closed"]]
  /\ wire' = Send(r, Written(r, rec) \o SseEvent(ErrorFrame))
  /\ UNCHANGED << conversations, messages, nextConv, nextMsg >>

\* lines 259-263: streamChat threw; the error frame, res.end()
RelayFail(r, rec) ==
  /\ rl' = [rl EXCEPT ![r] = [rec EXCEPT !.pc = "closed",
                                         !.frames = Append(@, ErrorFrame)]]
  /\ wire' = Send(r, Written(r, rec) \o SseEvent(ErrorFrame))
  /\ UNCHANGED << conversations, messages, nextConv, nextMsg >>

\* lines 258, 263: createMessage returned; the done frame, res.end()
RelayDone(r) ==
  /\ rl[r].pc = "saved"
  /\ rl' = [rl EXCEPT ![r].pc = "closed", ![r].frames = Append(@, DoneFrame)]
  /\ wire' = Send(r, SseEvent(DoneFrame))
  /\ UNCHANGED << sc, conversations, messages, nextConv, nextMsg >>
  /\ UNCHANGED << route, input, isGenerating, streamingMessage, sub, tick >>
  /\ UNCHANGED other

\* streamChat, lines 92-111: the backend answers the fetch with a success status
\* and the body it is going to send
BackendRespond(r, body) ==
  /\ sc[r].pc = "fetch"
  /\ sc' = [sc EXCEPT ![r].pc = "read", ![r].body = body]
  /\ UNCHANGED << rl, wire, conversations, messages, nextConv, nextMsg >>
  /\ UNCHANGED << route, input, isGenerating, streamingMessage, sub, tick >>
  /\ UNCHANGED other

\* streamChat, lines 92-106, 132-135: the fetch is rejected or answered with a
\* non-success status; the generator throws into the relay's loop
BackendRefuse(r) ==
  /\ sc[r].pc = "fetch"
  /\ sc' = [sc EXCEPT ![r].pc = "thrown"]
  /\ RelayFail(r, rl[r])
  /\ UNCHANGED << route, input, isGenerating, streamingMessage, sub, tick >>
  /\ UNCHANGED other

\* streamChat, lines 114-131: reader.read() returns some of the body
StreamRead(r, n, inside) ==
  /\ sc[r].pc = "read"
  /\ CanCut(sc[r].body, n, inside)
  /\ LET scan == ScanLines(NonBlankLines(ChunkOf(sc[r].body, n, inside)))
         rec  == RelayLoop(rl[r], scan.yields)
     IN  /\ sc' = [sc EXCEPT ![r].body = RestOf(sc[r].body, n, inside),
                             ![r].yielded = @ \o scan.yields,
                             ![r].pc = IF scan.returned THEN "returned" ELSE "read"]
         /\ IF scan.returned
            THEN RelaySave(r, rec)
            ELSE /\ rl' = [rl EXCEPT ![r] = rec]
                 /\ wire' = Send(r, Written(r, rec))
                 /\ UNCHANGED << conversations, messages, nextConv, nextMsg >>
  /\ UNCHANGED << route, input, isGenerating, streamingMessage, sub, tick >>
  /\ UNCHANGED other

\* a relay that writes the done frame and ends without storing the reply
StreamEof_DoneFirst(r) ==
  /\ sc[r].pc = "read"
  /\ sc[r].body = << >>
  /\ sc' = [sc EXCEPT ![r].pc = "returned"]
  /\ rl' = [rl EXCEPT ![r].pc = "closed", ![r].frames = Append(@, DoneFrame)]
  /\ wire' = Send(r, SseEvent(DoneFrame))
  /\ UNCHANGED << conversations, messages, nextConv, nextMsg >>
  /\ UNCHANGED << route, input, isGenerating, streamingMessage, sub, tick >>
  /\ UNCHANGED other

\* streamChat, lines 114-115: the backend closed the connection; reader.read()
\* returns done, the generator returns
StreamEof(r) ==
  /\ sc[r].pc = "read"
  /\ sc[r].body = << >>
  /\ sc' = [sc EXCEPT ![r].pc = "returned"]
  /\ RelaySave(r, rl[r])
  /\ UNCHANGED << route, input, isGenerating, streamingMessage, sub, tick >>
  /\ UNCHANGED other

\* streamChat, lines 114, 132-135: reader.read() is rejected (the connection broke)
StreamAbort(r) ==
  /\ sc[r].pc = "read"
  /\ sc' = [sc EXCEPT ![r].pc = "thrown"]
  /\ RelayFail(r, rl[r])
  /\ UNCHANGED << route, input, isGenerating, streamingMessage, sub, tick >>
  /\ UNCHANGED other

\* ------------------------------------------------------------ HTTP handlers
\* POST /api/conversations with a body the schema accepts
PostConversation(title, model) ==
  /\ conversations' = createConversation(conversations, nextConv, title, model)
  /\ nextConv' = nextConv + 1
  /\ UNCHANGED << messages, nextMsg >>

\* DELETE /api/conversations/:id (204, or 404 when storage.deleteConversation is false)
DeleteConversation(id) ==
  /\ conversations' = deleteConversationConvs(conversations, id)
  /\ messages' = deleteConversationMsgs(messages, id)
  /\ UNCHANGED << nextConv, nextMsg >>

\* POST /api/conversations/:id/messages with a body the schema accepts
PostMessage(id, role, content) ==
  /\ messages' = createMessage(messages, nextMsg, id, role, content)
  /\ nextMsg' = nextMsg + 1
  /\ UNCHANGED << conversations, nextConv >>

\* ------------------------------------------------------ Session Controller

store  == << conversations, messages, nextConv, nextMsg >>
server == << sc, rl, wire >>
view   == << route, input, isGenerating, streamingMessage, sub, tick >>
vars   == << conversations, messages, nextConv, nextMsg, sc, rl, wire,
             route, input, isGenerating, streamingMessage, sub, tick,
             clock, models, settings, nextModel, nextSetting, res, asked, health >>

TitleLen == 50
currentModel == "llama3.1"

\* String.prototype.trim on message text
RECURSIVE Trim(_)
Trim(text) ==
  IF text = << >> THEN text
  ELSE IF Head(text) = " " THEN Trim(Tail(text))
  ELSE IF text[Len(text)] = " " THEN Trim(SubSeq(text, 1, Len(text) - 1))
  ELSE text

\* a page that takes the whole first message as the title
Title_Whole(firstMessage) == firstMessage

\* Chat.startNewConversation: firstMessage.slice(0, 50) + (length > 50 ? '...' : '')
Title(firstMessage) ==
  IF firstMessage = Empty THEN << "New Chat" >>
  ELSE SubSeq(firstMessage, 1, IF Len(firstMessage) < TitleLen THEN Len(firstMessage) ELSE TitleLen)
       \o (IF Len(firstMessage) > TitleLen THEN << "...">> ELSE << >>)

IdleSub ==
  [pc |-> "idle", messageText |-> Empty, activeConversationId |-> NoConv,
   exit |-> "", invalidated |-> NoConv]

FreeSubs == { s \in Reqs : sub[s].pc = "idle" }
Least(S) == CHOOSE x \in S : \A y \in S : x <= y

\* a guard that tests the input without trimming it
SubmitRejected_NoTrim(text, generating) == text = Empty \/ generating

\* handleSubmit, line 99: the call is dropped
SubmitRejected(text, generating) == Trim(text) = Empty \/ generating

\* the textarea's onChange (disabled while isGenerating)
Type(text) ==
  /\ ~isGenerating
  /\ input' = text
  /\ UNCHANGED << store, server, route, isGenerating, streamingMessage, sub, tick >>
  /\ UNCHANGED other

\* handleSubmit, lines 97-118: up to the first request it awaits
HandleSubmit ==
  /\ tick' = 1 - tick
  /\ IF SubmitRejected(input, isGenerating)
     THEN UNCHANGED << store, server, route, input, isGenerating, streamingMessage, sub >>
     ELSE /\ FreeSubs # {}
          /\ route = NoConv =>
               nextConv + Cardinality({ s \in Reqs : sub[s].pc = "newConv" }) <= MaxConvs
          /\ input' = Empty
          /\ sub' = [sub EXCEPT ![Least(FreeSubs)] =
                       [IdleSub EXCEPT !.pc = IF route = NoConv THEN "newConv" ELSE "postMsg",
                                       !.messageText = Trim(input),
                                       !.activeConversationId = route]]
          /\ UNCHANGED << store, server, route, isGenerating, streamingMessage >>
  /\ UNCHANGED other

\* lines 107-110 with Chat.startNewConversation: the conversation is created, the
\* page moves to it, and the user message is posted
ConvCreated(s) ==
  /\ sub[s].pc = "newConv"
  /\ PostConversation(Title(sub[s].messageText), currentModel)
  /\ route' = nextConv
  /\ sub' = [sub EXCEPT ![s].pc = "postMsg", ![s].activeConversationId = nextConv]
  /\ UNCHANGED << server, input, isGenerating, streamingMessage, tick >>
  /\ UNCHANGED other

\* startNewConversation caught an error and returned null; line 109 returns
ConvCreateFail(s) ==
  /\ sub[s].pc = "newConv"
  /\ sub' = [sub EXCEPT ![s].pc = "done", ![s].exit = "noConversation"]
  /\ UNCHANGED << store, server, route, input, isGenerating, streamingMessage, tick >>
  /\ UNCHANGED other

\* lines 115-134: the user message is stored; Streaming begins and the chat
\* request is sent
MsgCreated(s) ==
  /\ sub[s].pc = "postMsg"
  /\ PostMessage(sub[s].activeConversationId, "user", sub[s].messageText)
  /\ isGenerating' = TRUE
  /\ streamingMessage' = Empty
  /\ sub' = [sub EXCEPT ![s].pc = "fetch"]
  /\ UNCHANGED << server, route, input, tick >>
  /\ UNCHANGED other

\* lines 189-193: the catch block
Caught(s) ==
  /\ isGenerating' = FALSE
  /\ streamingMessage' = Empty
  /\ sub' = [sub EXCEPT ![s].pc = "done", ![s].exit = "catch"]
  /\ wire' = [wire EXCEPT ![s] = << >>]

\* createMessageMutation.mutateAsync rejected
MsgCreateFail(s) ==
  /\ sub[s].pc = "postMsg"
  /\ Caught(s)
  /\ UNCHANGED << store, sc, rl, route, input, tick >>
  /\ UNCHANGED other

\* lines 125-150: the relay answers the chat request with the event stream
ChatOpened(s) ==
  /\ sub[s].pc = "fetch"
  /\ RelayStart(s, sub[s].activeConversationId)
  /\ sub' = [sub EXCEPT ![s].pc = "read"]
  /\ UNCHANGED << route, input, isGenerating, streamingMessage, tick >>
  /\ UNCHANGED other

\* the fetch of the chat request rejected
ChatFetchFail(s) ==
  /\ sub[s].pc = "fetch"
  /\ Caught(s)
  /\ UNCHANGED << store, sc, rl, route, input, tick >>
  /\ UNCHANGED other

\* lines 160-187: the lines of one read, applied to the view in order
RECURSIVE ClientScan(_, _)
ClientScan(lines, st) ==
  IF lines = << >> THEN st
  ELSE IF Head(lines)[1].k # "data" \/ ~ParseOk(Tail(Head(lines)))
       THEN ClientScan(Tail(lines), st)
  ELSE LET data == ParseVal(Tail(Head(lines)))
       IN  IF data.error # Empty
           THEN [st EXCEPT !.gen = FALSE, !.exit = "errorFrame"]
           ELSE IF data.done
           THEN [st EXCEPT !.gen = FALSE, !.buf = Empty, !.exit = "doneFrame",
                           !.inv = st.conv]
           ELSE IF data.content # Empty
           THEN ClientScan(Tail(lines), [st EXCEPT !.buf = @ \o data.content])
           ELSE ClientScan(Tail(lines), st)

\* lines 153-188: reader.read() returns some of the response
ClientRead(s, n, inside) ==
  /\ sub[s].pc = "read"
  /\ CanCut(wire[s], n, inside)
  /\ LET st == ClientScan(NonBlankLines(ChunkOf(wire[s], n, inside)),
                          [gen |-> isGenerating, buf |-> streamingMessage, exit |-> "",
                           inv |-> NoConv, conv |-> sub[s].activeConversationId])
     IN  /\ isGenerating' = st.gen
         /\ streamingMessage' = st.buf
         /\ sub' = [sub EXCEPT ![s].pc = IF st.exit = "" THEN "read" ELSE "done",
                               ![s].exit = st.exit,
                               ![s].invalidated = st.inv]
         /\ wire' = [wire EXCEPT ![s] = IF st.exit = "" THEN RestOf(wire[s], n, inside)
                                         ELSE << >>]
  /\ UNCHANGED << store, sc, rl, route, input, tick >>
  /\ UNCHANGED other

\* lines 153-155, 188: the response ended; reader.read() returns done and the
\* loop is left
ClientEof(s) ==
  /\ sub[s].pc = "read"
  /\ wire[s] = << >>
  /\ rl[s].pc = "closed"
  /\ sub' = [sub EXCEPT ![s].pc = "done", ![s].exit = "eof"]
  /\ UNCHANGED << store, server, route, input, isGenerating, streamingMessage, tick >>
  /\ UNCHANGED other

\* reader.read() rejected (the connection broke)
ClientReadFail(s) ==
  /\ sub[s].pc = "read"
  /\ Caught(s)
  /\ UNCHANGED << store, sc, rl, route, input, tick >>
  /\ UNCHANGED other

\* a conversation of the sidebar is clicked, or the browser goes back to "/"
Navigate(id) ==
  /\ id = NoConv \/ HasConversation(id)
  /\ id # route
  /\ route' = id
  /\ UNCHANGED << store, server, input, isGenerating, streamingMessage, sub, tick >>
  /\ UNCHANGED other

\* ------------------------------------------------------------ environment
Hel == << "H", "e", "l" >>
lo  == << "l", "o" >>

\* bodies the inference backend sends: a fragment and a done line with a fragment;
\* a junk line and a fragment, then the connection closes
Bodies ==
  { Line(Obj(Hel, FALSE)) \o Line(Obj(lo, TRUE)),
    << Junk, NL >> \o Line(Obj(lo, FALSE)) }

\* the body the backend sends to the chats of the browser page: one fragment
ViewBodies == { Line(Obj(Hel, FALSE)) }

\* what the user types
Inputs == { << " " >>, << "h", " " >> }

\* where a read may end: anywhere
Cuts(text) == { c \in (0 .. Len(text)) \X BOOLEAN : CanCut(text, c[1], c[2]) }

\* where a read may end: at the end of what is there
WholeCuts(text) == { c \in Cuts(text) : c[1] = Len(text) }

\* where a read may end: at the end of what is there, or inside a JSON text
ViewCuts(text) == { c \in Cuts(text) : c[2] \/ c[1] = Len(text) }

Init ==
  /\ conversations = << >>
  /\ messages = << >>
  /\ nextConv = 1
  /\ nextMsg = 1
  /\ sc = [r \in Reqs |-> IdleStream]
  /\ rl = [r \in Reqs |-> IdleRelay]
  /\ wire = [r \in Reqs |-> << >>]
  /\ route = NoConv
  /\ input = Empty
  /\ isGenerating = FALSE
  /\ streamingMessage = Empty
  /\ sub = [s \in Reqs |-> IdleSub]
  /\ tick = 0
  /\ clock = 0
  /\ models = << >>
  /\ settings = defaultSettings
  /\ nextModel = 1
  /\ nextSetting = Len(defaultSettings) + 1
  /\ res = NoStatus
  /\ asked = << >>
  /\ health = << >>

FreeReqs == { r \in Reqs : rl[r].pc = "idle" }

\* any HTTP client: POST /api/conversations
ApiPostConversation ==
  /\ nextConv <= ApiConvs
  /\ PostConversation(<< "t" >>, currentModel)
  /\ UNCHANGED << server, view >>
  /\ UNCHANGED other

\* any HTTP client: DELETE /api/conversations/:id
ApiDeleteConversation(id) ==
  /\ DeleteConversation(id)
  /\ UNCHANGED << server, view >>
  /\ UNCHANGED other

\* any HTTP client: POST /api/conversations/:id/messages
ApiPostMessage(id, role) ==
  /\ nextMsg <= ApiPosts
  /\ PostMessage(id, role, << "q" >>)
  /\ UNCHANGED << server, view >>
  /\ UNCHANGED other

\* any HTTP client: POST /api/conversations/:id/chat
ApiChat(id) ==
  /\ FreeReqs # {}
  /\ RelayStart(Least(FreeReqs), id)
  /\ UNCHANGED view
  /\ UNCHANGED other

\* the server under any HTTP clients and any inference backend
Next ==
  \/ ApiPostConversation
  \/ \E id \in ConvIds : ApiDeleteConversation(id)
  \/ \E id \in ConvIds, role \in {"user", "assistant"} : ApiPostMessage(id, role)
  \/ \E id \in ConvIds : ApiChat(id)
  \/ \E r \in Reqs, body \in Bodies : BackendRespond(r, body)
  \/ \E r \in Reqs : BackendRefuse(r)
  \/ \E r \in Reqs : \E c \in Cuts(sc[r].body) : StreamRead(r, c[1], c[2])
  \/ \E r \in Reqs : StreamEof(r)
  \/ \E r \in Reqs : StreamAbort(r)
  \/ \E r \in Reqs : RelayDone(r)

Spec == Init /\ [][Next]_vars

\* the requests that fail under the page: the catch paths of handleSubmit
Faults ==
  \E s \in Reqs :
    \/ ConvCreateFail(s)
    \/ MsgCreateFail(s)
    \/ ChatFetchFail(s)
    \/ ClientReadFail(s)

\* one browser page, the server and the inference backend behind it
NextView ==
  \/ \E text \in Inputs : Type(text)
  \/ HandleSubmit
  \/ \E id \in ConvIds \cup {NoConv} : Navigate(id)
  \/ \E s \in Reqs : ConvCreated(s)
  \/ \E s \in Reqs : MsgCreated(s)
  \/ \E s \in Reqs : ChatOpened(s)
  \/ \E s \in Reqs : \E c \in ViewCuts(wire[s]) : ClientRead(s, c[1], c[2])
  \/ \E s \in Reqs : ClientEof(s)
  \/ \E r \in Reqs, body \in ViewBodies : BackendRespond(r, body)
  \/ \E r \in Reqs : BackendRefuse(r)
  \/ \E r \in Reqs : \E c \in WholeCuts(sc[r].body) : StreamRead(r, c[1], c[2])
  \/ \E r \in Reqs : StreamEof(r)
  \/ \E r \in Reqs : StreamAbort(r)
  \/ \E r \in Reqs : RelayDone(r)

SpecView == Init /\ [][NextView]_vars

\* ------------------------------------------- Record Store and its handlers

MaxClock     == 2    \* the latest time new Date() returns
StorePosts   == 3    \* messages the store's HTTP client posts
MaxModelIds  == 3    \* model ids the store hands out

\* time passes
Tick ==
  /\ clock < MaxClock
  /\ clock' = clock + 1
  /\ UNCHANGED << store, server, view >>
  /\ UNCHANGED << models, settings, nextModel, nextSetting, res, asked, health >>

\* {...conversation, ...updates, updatedAt: new Date()}
Merge(conversation, updates) ==
  [f \in DOMAIN conversation |->
     IF f = "updatedAt" THEN clock
     ELSE IF f \in DOMAIN updates THEN updates[f]
     ELSE conversation[f]]

\* MemStorage.updateConversation: the record under the same key, merged
updateConversation(convs, id, updates) ==
  [i \in 1 .. Len(convs) |->
     IF convs[i].id = id THEN Merge(convs[i], updates) ELSE convs[i]]

\* a caller of the store updates a conversation (no route does)
UpdateConversation(id, updates) ==
  /\ conversations' = updateConversation(conversations, id, updates)
  /\ UNCHANGED << messages, nextConv, nextMsg >>
  /\ UNCHANGED << server, view, other >>

\* insertConversationSchema.parse: title and model are required
ValidConversation(body) == {"title", "model"} \subseteq DOMAIN body

\* a schema that takes any role
ValidMessage_AnyRole(body) == {"role", "content"} \subseteq DOMAIN body

\* insertMessageSchema.parse: role is "user" or "assistant", content is required
ValidMessage(body) ==
  /\ {"role", "content"} \subseteq DOMAIN body
  /\ body.role \in {"user", "assistant"}

\* insertSettingsSchema.parse({key, value: req.body.value}): value is required
ValidSetting(body) == "value" \in DOMAIN body

\* the handler of POST /api/conversations, whole
HttpPostConversation(body) ==
  /\ nextConv <= MaxConvs
  /\ IF ValidConversation(body)
     THEN PostConversation(body.title, body.model) /\ res' = 201
     ELSE UNCHANGED store /\ res' = 400
  /\ UNCHANGED << server, view >>
  /\ asked' = << >>
  /\ UNCHANGED << clock, models, settings, nextModel, nextSetting, health >>

\* the handler of DELETE /api/conversations/:id, whole
HttpDeleteConversation(id) ==
  /\ DeleteConversation(id)
  /\ res' = IF HasConversation(id) THEN 204 ELSE 404
  /\ UNCHANGED << server, view >>
  /\ asked' = << >>
  /\ UNCHANGED << clock, models, settings, nextModel, nextSetting, health >>

\* the handler of POST /api/conversations/:id/messages, whole
HttpPostMessage(id, body) ==
  /\ nextMsg <= StorePosts
  /\ IF ValidMessage(body)
     THEN PostMessage(id, body.role, body.content) /\ res' = 201
     ELSE UNCHANGED store /\ res' = 400
  /\ UNCHANGED << server, view >>
  /\ asked' = << >>
  /\ UNCHANGED << clock, models, settings, nextModel, nextSetting, health >>

\* bodies a client sends
Updates == { [title |-> << "u" >>], [createdAt |-> MaxClock] }

ConversationBodies ==
  { [title |-> << "t" >>, model |-> currentModel], [title |-> << "t" >>] }

MessageBodies ==
  { [role |-> "user", content |-> << "q" >>],
    [role |-> "system", content |-> << "q" >>],
    [content |-> << "q" >>] }

\* the conversations and messages of the store under any caller
NextStore ==
  \/ Tick
  \/ \E body \in ConversationBodies : HttpPostConversation(body)
  \/ \E id \in ConvIds : HttpDeleteConversation(id)
  \/ \E id \in ConvIds, body \in MessageBodies : HttpPostMessage(id, body)
  \/ \E id \in ConvIds, updates \in Updates : UpdateConversation(id, updates)

SpecStore == Init /\ [][NextStore]_vars

\* ------------------------------------------------ model catalog, settings

Undefined == << "undefined" >>
Null      == << "null" >>

\* `${Math.round(size / 1024 / 1024 / 1024 * 10) / 10}GB` of a size in whole GiB,
\* undefined when the size is missing or 0
SizeText(size) == IF size = 0 THEN Undefined ELSE << ToString(size), "GB" >>

\* models.find(m => m.name === name): the index of the first record of the name,
\* 0 when there is none
FindModel(mods, name) ==
  IF \E i \in 1 .. Len(mods) : mods[i].name = name
  THEN Least({ i \in 1 .. Len(mods) : mods[i].name = name })
  ELSE 0

\* a store that always adds a record
createOrUpdateModel_Add(mods, id, insertModel) ==
  Append(mods, [id |-> id, name |-> insertModel.name,
                displayName |-> insertModel.displayName,
                size |-> Null, isAvailable |-> TRUE, lastUpdated |-> clock])

\* MemStorage.createOrUpdateModel; id is the fresh id, used when the name is new
createOrUpdateModel(mods, id, insertModel) ==
  LET i == FindModel(mods, insertModel.name)
  IN  IF i # 0
      THEN [mods EXCEPT ![i] =
              [f \in DOMAIN mods[i] |->
                 IF f = "lastUpdated" THEN clock
                 ELSE IF f \in DOMAIN insertModel THEN insertModel[f]
                 ELSE mods[i][f]]]
      ELSE Append(mods,
             [id |-> id, name |-> insertModel.name,
              displayName |-> insertModel.displayName,
              size |-> IF "size" \in DOMAIN insertModel /\ insertModel.size # Undefined
                       THEN insertModel.size ELSE Null,
              isAvailable |-> IF "isAvailable" \in DOMAIN insertModel
                              THEN insertModel.isAvailable ELSE TRUE,
              lastUpdated |-> clock])

\* MemStorage.deleteModel
deleteModel(mods, name) ==
  LET i == FindModel(mods, name)
  IN  IF i = 0 THEN mods
      ELSE SubSeq(mods, 1, i - 1) \o SubSeq(mods, i + 1, Len(mods))

\* how a fetch of the inference backend ends: a success status, another
\* status, or no answer at all (the fetch rejects)
Outcomes == {"ok", "status", "unreachable"}

\* OllamaClient.listModels: data.models || [] of a success answer, [] from the
\* catch block: the fetch rejected, the status is no success, or the body does
\* not parse (outcome "unparsable")
listModels(response) ==
  IF response.outcome = "ok" /\ "models" \in DOMAIN response
  THEN response.models
  ELSE << >>

\* OllamaClient.pullModel: response.ok, false from the catch block
pullModel(outcome) == IF outcome = "unreachable" THEN FALSE ELSE outcome = "ok"

\* OllamaClient.deleteModel: response.ok, false from the catch block
ollamaDeleteModel(outcome) == IF outcome = "unreachable" THEN FALSE ELSE outcome = "ok"

\* a probe that reports a healthy backend whatever the fetch did
checkHealth_Optimistic(outcome) == TRUE

\* OllamaClient.checkHealth: response.ok, false from the catch block
checkHealth(outcome) == IF outcome = "unreachable" THEN FALSE ELSE outcome = "ok"

\* the handler made one request to the backend, which ended with outcome
Asked(path, outcome) == << [path |-> path, outcome |-> outcome] >>

\* a sync that takes the first model of the list and leaves the others
SyncModels_FirstOnly(mods, id, ollamaModels) ==
  IF ollamaModels = << >> THEN [models |-> mods, next |-> id]
  ELSE LET model == Head(ollamaModels)
           upd   == createOrUpdateModel(mods, id,
                      [name |-> model.name, displayName |-> model.name,
                       size |-> SizeText(model.size), isAvailable |-> TRUE])
       IN  [models |-> upd, next |-> IF Len(upd) > Len(mods) THEN id + 1 ELSE id]

\* GET /api/models, lines 276-283: the loop over what the backend lists
RECURSIVE SyncModels(_, _, _)
SyncModels(mods, id, ollamaModels) ==
  IF ollamaModels = << >> THEN [models |-> mods, next |-> id]
  ELSE LET model == Head(ollamaModels)
           upd   == createOrUpdateModel(mods, id,
                      [name |-> model.name, displayName |-> model.name,
                       size |-> SizeText(model.size), isAvailable |-> TRUE])
       IN  SyncModels(upd, IF Len(upd) > Len(mods) THEN id + 1 ELSE id,
                      Tail(ollamaModels))

\* a sync that keeps only the records of the models the backend lists
HttpGetModels_Mirror(response) ==
  LET ollamaModels == listModels(response)
      synced == SyncModels(models, nextModel, ollamaModels)
  IN  /\ nextModel + Len(ollamaModels) <= MaxModelIds + 1
      /\ models' = SelectSeq(synced.models,
                      LAMBDA m : \E i \in 1 .. Len(ollamaModels) :
                                   ollamaModels[i].name = m.name)
      /\ nextModel' = synced.next
      /\ res' = 200
      /\ asked' = Asked("/api/tags", response.outcome)
      /\ UNCHANGED << store, server, view, clock, settings, nextSetting, health >>

\* the handler of GET /api/models, whole; response is the backend's answer to
\* the fetch of listModels
HttpGetModels(response) ==
  LET ollamaModels == listModels(response)
      synced == SyncModels(models, nextModel, ollamaModels)
  IN  /\ nextModel + Len(ollamaModels) <= MaxModelIds + 1
      /\ models' = synced.models
      /\ nextModel' = synced.next
      /\ res' = 200
      /\ asked' = Asked("/api/tags", response.outcome)
      /\ UNCHANGED << store, server, view, clock, settings, nextSetting, health >>

\* a handler that stores the record before it knows what the backend said
HttpPullModel_StoreFirst(body, outcome) ==
  /\ nextModel <= MaxModelIds
  /\ IF "name" \notin DOMAIN body
     THEN res' = 400 /\ asked' = << >> /\ UNCHANGED << models, nextModel >>
     ELSE LET upd == createOrUpdateModel(models, nextModel,
                       [name |-> body.name, displayName |-> body.name,
                        isAvailable |-> TRUE])
          IN  /\ models' = upd
              /\ nextModel' = IF Len(upd) > Len(models) THEN nextModel + 1 ELSE nextModel
              /\ res' = IF pullModel(outcome) THEN 200 ELSE 500
              /\ asked' = Asked("/api/pull", outcome)
  /\ UNCHANGED << store, server, view, clock, settings, nextSetting, health >>

\* the handler of POST /api/models/pull, whole; outcome is how the fetch of
\* pullModel ends
HttpPullModel(body, outcome) ==
  /\ nextModel <= MaxModelIds
  /\ IF "name" \notin DOMAIN body
     THEN res' = 400 /\ asked' = << >> /\ UNCHANGED << models, nextModel >>
     ELSE /\ asked' = Asked("/api/pull", outcome)
          /\ IF pullModel(outcome)
             THEN LET upd == createOrUpdateModel(models, nextModel,
                               [name |-> body.name, displayName |-> body.name,
                                isAvailable |-> TRUE])
                  IN  /\ models' = upd
                      /\ nextModel' = IF Len(upd) > Len(models)
                                      THEN nextModel + 1 ELSE nextModel
                      /\ res' = 200
             ELSE res' = 500 /\ UNCHANGED << models, nextModel >>
  /\ UNCHANGED << store, server, view, clock, settings, nextSetting, health >>

\* a handler that deletes the local record before it knows what the backend said
HttpDeleteModel_LocalFirst(name, outcome) ==
  /\ models' = deleteModel(models, name)
  /\ res' = IF ollamaDeleteModel(outcome) THEN 204 ELSE 500
  /\ asked' = Asked("/api/delete", outcome)
  /\ UNCHANGED << store, server, view, clock, nextModel, settings, nextSetting, health >>

\* the handler of DELETE /api/models/:name, whole; outcome is how the fetch of
\* ollama.deleteModel ends
HttpDeleteModel(name, outcome) ==
  /\ IF ollamaDeleteModel(outcome)
     THEN models' = deleteModel(models, name) /\ res' = 204
     ELSE models' = models /\ res' = 500
  /\ asked' = Asked("/api/delete", outcome)
  /\ UNCHANGED << store, server, view, clock, nextModel, settings, nextSetting, health >>

\* the handler of GET /api/health, whole; outcome is how the fetch of
\* checkHealth ends
HttpGetHealth(outcome) ==
  /\ health' = << checkHealth(outcome) >>
  /\ res' = 200
  /\ asked' = Asked("/api/tags", outcome)
  /\ UNCHANGED << store, server, view >>
  /\ UNCHANGED << clock, models, settings, nextModel, nextSetting >>

\* settings.get(key): the index of the record of the key, 0 when there is none
FindSetting(sets, key) ==
  IF \E i \in 1 .. Len(sets) : sets[i].key = key
  THEN Least({ i \in 1 .. Len(sets) : sets[i].key = key })
  ELSE 0

\* a store that adds a record on every call
setSetting_Add(sets, id, key, value) ==
  Append(sets, [id |-> id, key |-> key, value |-> value, updatedAt |-> clock])

\* a store that keeps only the setting written last
setSetting_Reset(sets, id, key, value) ==
  << [id |-> id, key |-> key, value |-> value, updatedAt |-> clock] >>

\* MemStorage.setSetting; id is the fresh id, used when the key is new
setSetting(sets, id, key, value) ==
  LET i == FindSetting(sets, key)
  IN  IF i # 0
      THEN [sets EXCEPT ![i].value = value, ![i].updatedAt = clock]
      ELSE Append(sets, [id |-> id, key |-> key, value |-> value, updatedAt |-> clock])

\* the handler of PUT /api/settings/:key, whole
HttpPutSetting(key, body) ==
  /\ IF ValidSetting(body)
     THEN /\ settings' = setSetting(settings, nextSetting, key, body.value)
          /\ nextSetting' = IF FindSetting(settings, key) = 0
                            THEN nextSetting + 1 ELSE nextSetting
          /\ res' = 200
     ELSE res' = 400 /\ UNCHANGED << settings, nextSetting >>
  /\ asked' = << >>
  /\ UNCHANGED << store, server, view, clock, models, nextModel, health >>

\* what the backend lists, and what a client sends
ModelNames == {"a", "b"}

OllamaLists ==
  { << >>,
    << [name |-> "a", size |-> 4] >>,
    << [name |-> "b", size |-> 0], [name |-> "b", size |-> 4] >>,
    << [name |-> "a", size |-> 0], [name |-> "b", size |-> 4] >> }

PullBodies == { [name |-> "a"], [name |-> "b"], [stream |-> FALSE] }

\* what the backend answers to GET /api/tags: a list, an object with no
\* models, a body that is no JSON, another status, nothing
TagsResponses ==
  { [outcome |-> "ok", models |-> l] : l \in OllamaLists }
    \cup { [outcome |-> o] : o \in Outcomes \cup {"unparsable"} }

SettingKeys == {"temperature", "theme"}

SettingBodies == { [value |-> "0.9"], [value |-> "dark"], [val |-> "0.9"] }

\* the answers of a backend that can be reached
Answers == {"ok", "status"}

ListResponses == { r \in TagsResponses : "models" \in DOMAIN r }

\* the catalog and the settings under any HTTP client and a backend that can be
\* reached, with the two handlers that validate a body before they create a record
NextCatalog ==
  \/ \E response \in ListResponses : HttpGetModels(response)
  \/ \E body \in PullBodies, outcome \in Answers : HttpPullModel(body, outcome)
  \/ \E name \in ModelNames, outcome \in Answers : HttpDeleteModel(name, outcome)
  \/ \E key \in SettingKeys, body \in SettingBodies : HttpPutSetting(key, body)
  \/ \E body \in ConversationBodies : HttpPostConversation(body)
  \/ \E id \in ConvIds, body \in MessageBodies : HttpPostMessage(id, body)

SpecCatalog == Init /\ [][NextCatalog]_vars

\* -------------------------------------------- the backend behind the routes

\* the four routes that ask the inference backend, under any client and any
\* backend
NextUpstream ==
  \/ \E outcome \in Outcomes : HttpGetHealth(outcome)
  \/ \E response \in TagsResponses : HttpGetModels(response)
  \/ \E body \in PullBodies, outcome \in Outcomes : HttpPullModel(body, outcome)
  \/ \E name \in ModelNames, outcome \in Outcomes : HttpDeleteModel(name, outcome)

SpecUpstream == Init /\ [][NextUpstream]_vars

\* ------------------------------------------- one chat, lines of invalid JSON

\* bodies with lines that are not JSON before and between the valid lines
LineBodies ==
  { Line(Obj(Hel, FALSE)) \o << Junk, NL >> \o Line(Obj(lo, FALSE)),
    Line(Obj(Hel, FALSE)) \o << Junk, NL >> \o Line(Obj(lo, TRUE)) \o Line(Obj(Hel, FALSE)),
    << Junk, NL >> \o Line(Obj(Hel, FALSE)) \o << Blank, NL, Junk, NL >>
      \o Line(Obj(lo, FALSE)),
    Line(Obj(lo, FALSE)) \o << Junk, NL >> \o Line(Obj(Hel, FALSE))
      \o << Junk, NL >> \o Line(Obj(lo, FALSE)),
    << Junk, NL, Junk, NL >> \o Line(Obj(lo, FALSE)) \o Line(Obj(Hel, TRUE)) }

\* where a read may end: between two tokens, never inside a JSON text
TokenCuts(text) == { c \in Cuts(text) : ~c[2] }

\* the one chat request, for any conversation id
OneChat(id) ==
  /\ rl[1].pc = "idle"
  /\ RelayStart(1, id)
  /\ UNCHANGED << view, other >>

\* one chat whose backend sends lines of invalid JSON among the valid ones
NextLines ==
  \/ \E id \in ConvIds : OneChat(id)
  \/ \E body \in LineBodies : BackendRespond(1, body)
  \/ BackendRefuse(1)
  \/ \E c \in TokenCuts(sc[1].body) : StreamRead(1, c[1], c[2])
  \/ StreamEof(1)
  \/ StreamAbort(1)
  \/ RelayDone(1)

SpecLines == Init /\ [][NextLines]_vars

\* ------------------------------------------- the page, long first messages

\* a text of n characters that ends in "z"
Chars(n) == [i \in 1 .. n |-> IF i = n THEN "z" ELSE "x"]

\* what the user types: texts around the length the title is cut at, one of them
\* with a blank in front
TitleInputs ==
  { Chars(n) : n \in {1, 30, TitleLen - 1, TitleLen, TitleLen + 1, 60} }
    \cup { << " " >> \o Chars(TitleLen + 1) }

\* the page up to the start of Streaming: typing, submitting, the conversation
\* and the user message being created, going to another conversation
NextTitle ==
  \/ \E text \in TitleInputs : Type(text)
  \/ HandleSubmit
  \/ \E id \in ConvIds \cup {NoConv} : Navigate(id)
  \/ \E s \in Reqs : ConvCreated(s)
  \/ \E s \in Reqs : MsgCreated(s)

SpecTitle == Init /\ [][NextTitle]_vars

\* ---------------------------------------------- the page when requests fail

\* one browser page, the server and the inference backend behind it, with every
\* request of handleSubmit able to fail
NextFaults ==
  \/ \E text \in Inputs : Type(text)
  \/ HandleSubmit
  \/ \E id \in ConvIds \cup {NoConv} : Navigate(id)
  \/ \E s \in Reqs : ConvCreated(s)
  \/ \E s \in Reqs : ConvCreateFail(s)
  \/ \E s \in Reqs : MsgCreated(s)
  \/ \E s \in Reqs : MsgCreateFail(s)
  \/ \E s \in Reqs : ChatOpened(s)
  \/ \E s \in Reqs : ChatFetchFail(s)
  \/ \E s \in Reqs : \E c \in ViewCuts(wire[s]) : ClientRead(s, c[1], c[2])
  \/ \E s \in Reqs : ClientEof(s)
  \/ \E s \in Reqs : ClientReadFail(s)
  \/ \E r \in Reqs, body \in ViewBodies : BackendRespond(r, body)
  \/ \E r \in Reqs : BackendRefuse(r)
  \/ \E r \in Reqs : \E c \in WholeCuts(sc[r].body) : StreamRead(r, c[1], c[2])
  \/ \E r \in Reqs : StreamEof(r)
  \/ \E r \in Reqs : StreamAbort(r)
  \/ \E r \in Reqs : RelayDone(r)

SpecFaults == Init /\ [][NextFaults]_vars


\* ------------------------------------------------------ the new-chat button

\* what React hands to an onClick handler: the event object, which is truthy
\* and is not a string
ClickEvent == << "[object Object]" >>

\* whether firstMessage has String.prototype.slice
IsString(firstMessage) == firstMessage # ClickEvent

\* sidebar.tsx line 150, onClick={onNewConversation}: the button calls
\* Chat.startNewConversation with the event as firstMessage. Line 357 takes the
\* truthy branch and calls firstMessage.slice, outside the try block: a
\* TypeError leaves the function before the mutation of line 362.
NewChatClick ==
  /\ FreeSubs # {}
  /\ LET firstMessage == ClickEvent
         s == Least(FreeSubs)
     IN  IF firstMessage # Empty /\ ~IsString(firstMessage)
         THEN /\ sub' = [sub EXCEPT ![s] = [IdleSub EXCEPT !.pc = "done",
                                                          !.messageText = firstMessage,
                                                          !.exit = "TypeError"]]
              /\ UNCHANGED << store, route >>
         ELSE /\ nextConv <= MaxConvs
              /\ PostConversation(Title(firstMessage), currentModel)
              /\ route' = nextConv
              /\ sub' = [sub EXCEPT ![s] = [IdleSub EXCEPT !.pc = "done",
                                                          !.messageText = firstMessage,
                                                          !.activeConversationId = nextConv,
                                                          !.exit = "created"]]
  /\ UNCHANGED << server, input, isGenerating, streamingMessage, tick >>
  /\ UNCHANGED other

\* the page up to the start of Streaming, with the new-chat button of the sidebar
NextNewChat ==
  \/ \E text \in Inputs : Type(text)
  \/ HandleSubmit
  \/ NewChatClick
  \/ \E id \in ConvIds \cup {NoConv} : Navigate(id)
  \/ \E s \in Reqs : ConvCreated(s)
  \/ \E s \in Reqs : MsgCreated(s)

SpecNewChat == Init /\ [][NextNewChat]_vars


\* ------------------------------------------------------------- properties

ContentFrames(ys) == [i \in 1 .. Len(ys) |-> ContentFrame(ys[i])]

RECURSIVE Concat(_)
Concat(ys) == IF ys = << >> THEN Empty ELSE Head(ys) \o Concat(Tail(ys))

Last(q) == q[Len(q)]

IsContent(f)  == ~f.done /\ f.error = Empty
IsTerminal(f) == f = DoneFrame \/ f = ErrorFrame
HasDone(r)    == \E i \in 1 .. Len(rl[r].frames) : rl[r].frames[i] = DoneFrame
InStore(m)    == \E i \in 1 .. Len(messages) : messages[i] = m

\* the inference stream of request r ended normally / failed
NormalEnd(r) == sc[r].pc = "returned"
Failed(r)    == sc[r].pc = "thrown"

RECURSIVE SumSaved(_)
SumSaved(n) == IF n = 0 THEN 0 ELSE Len(rl[n].saved) + SumSaved(n - 1)

\* the step adds to the store exactly the message a request logs in it
StoresWhatItLogs ==
  \A r \in Reqs :
    rl'[r].saved # rl[r].saved =>
      /\ Len(messages') = Len(messages) + 1
      /\ messages' = Append(messages, Last(messages'))
      /\ rl'[r].saved = Append(rl[r].saved, Last(messages'))

C1_State ==
  \A r \in Reqs :
    NormalEnd(r) =>
      /\ rl[r].pc \in {"saved", "closed"}
      /\ rl[r].pc = "saved" => rl[r].frames = ContentFrames(sc[r].yielded)
      /\ rl[r].pc = "closed" =>
           rl[r].frames = ContentFrames(sc[r].yielded) \o << DoneFrame >>
      /\ Len(rl[r].saved) = 1
      /\ rl[r].saved[1].role = "assistant"
      /\ rl[r].saved[1].conversationId = rl[r].conversationId
      /\ rl[r].saved[1].content = Concat(sc[r].yielded)

\* C1: when the inference stream of a chat request ends normally after yielding
\* the fragments f1..fn (n >= 0), the relay has written the content frames of
\* f1..fn in that order, then writes the done frame and nothing else, and it has
\* stored exactly one message: role assistant, the request's conversationId,
\* content f1+...+fn.
C1_RelayNormalEnd == [] C1_State /\ [][StoresWhatItLogs]_vars

\* a request yielded "Hel", "lo", ended normally, and its reply is in the store
C1_Witness ==
  \E r \in Reqs :
    /\ NormalEnd(r) /\ rl[r].pc = "closed"
    /\ sc[r].yielded = << Hel, lo >>
    /\ InStore(rl[r].saved[1])

C2_State ==
  \A r \in Reqs :
    Failed(r) =>
      /\ rl[r].saved = << >>
      /\ rl[r].pc = "closed"
      /\ rl[r].frames = ContentFrames(sc[r].yielded) \o << ErrorFrame >>

C2_Step ==
  \A r \in Reqs : sc'[r].pc = "thrown" /\ sc[r].pc # "thrown" => messages' = messages

\* C2: when the inference stream fails after the event stream was opened, at the
\* start or after any number of fragments, the relay stores no message for the
\* request (the step of the failure leaves the store as it was), writes an error
\* frame and no done frame, and closes the response.
C2_RelayFailure == [] C2_State /\ [][C2_Step]_vars

\* a stream failed after it yielded a fragment that the relay had accumulated
C2_Witness ==
  \E r \in Reqs : Failed(r) /\ sc[r].yielded # << >> /\ rl[r].assistantMessage # Empty

C3_State ==
  \A r \in Reqs :
    LET f == rl[r].frames
    IN  /\ \A i \in 1 .. Len(f) - 1 : IsContent(f[i])
        /\ rl[r].pc = "closed" <=> (f # << >> /\ IsTerminal(Last(f)))
        /\ SelectSeq(f, IsContent) = ContentFrames(sc[r].yielded)

C3_Step ==
  \A r \in Reqs :
    /\ Len(rl'[r].frames) >= Len(rl[r].frames)
    /\ SubSeq(rl'[r].frames, 1, Len(rl[r].frames)) = rl[r].frames
    /\ rl[r].pc = "closed" => rl'[r].frames = rl[r].frames

\* C3: the frames of every event stream are content frames, in the order their
\* fragments came from the inference stream, followed, once the response is
\* closed, by exactly one terminal frame, the done frame or the error frame;
\* frames are only ever appended, and none after the terminal frame.
C3_FrameOrder == [] C3_State /\ [][C3_Step]_vars

\* one event stream ended with content frames and the done frame, another with a
\* content frame and the error frame
C3_Witness ==
  \E r, q \in Reqs :
    /\ rl[r].pc = "closed" /\ Last(rl[r].frames) = DoneFrame /\ Len(rl[r].frames) > 2
    /\ rl[q].pc = "closed" /\ Last(rl[q].frames) = ErrorFrame /\ Len(rl[q].frames) > 1

C4_State ==
  /\ SumSaved(MaxReqs) = Cardinality({ r \in Reqs : NormalEnd(r) })
  /\ \A r \in Reqs : Len(rl[r].saved) <= 1
  /\ \A r \in Reqs : Failed(r) => rl[r].saved = << >>
  /\ \A r \in Reqs : NormalEnd(r) => Len(rl[r].saved) = 1

C4_Step ==
  /\ StoresWhatItLogs
  /\ (rl' # rl /\ \A r \in Reqs : rl'[r].saved = rl[r].saved) => messages' = messages

\* C4: in every reachable state, whatever the interleaving of the chat requests,
\* the number of messages the relay has written to the store is the number of
\* inference streams that ended normally: one for each such stream, none for a
\* stream that failed, and a step of the relay changes the store only by the one
\* message it logs.
C4_OneWritePerStream == [] C4_State /\ [][C4_Step]_vars

\* two concurrent chats of the same conversation both ended normally, and both
\* replies are in the store
C4_Witness ==
  /\ \A r \in Reqs : NormalEnd(r) /\ rl[r].conversationId = rl[1].conversationId
  /\ \A r \in Reqs : InStore(rl[r].saved[1])
  /\ rl[1].saved[1].content = rl[2].saved[1].content

C5_State ==
  /\ \A r \in Reqs :
       HasDone(r) =>
         /\ Len(rl[r].saved) = 1
         /\ \E i \in 1 .. Len(getMessages(rl[r].conversationId)) :
              getMessages(rl[r].conversationId)[i] = rl[r].saved[1]
  /\ \A s \in Reqs :
       sub[s].exit = "doneFrame" =>
         /\ HasDone(s)
         /\ rl[s].conversationId = sub[s].activeConversationId
         /\ sub[s].invalidated = sub[s].activeConversationId

C5_Step ==
  \A s \in Reqs :
    sub'[s].exit = "doneFrame" /\ sub[s].exit # "doneFrame" =>
      isGenerating' = FALSE /\ streamingMessage' = Empty

\* C5: a done frame is written only after the reply is stored: from the moment
\* the done frame is written, getMessages of the stream's conversation contains
\* the stream's reply; the step in which the page processes the done frame
\* clears the streaming buffer and the generating flag and invalidates the
\* message list of the conversation the chat was started for.
C5_SavedBeforeDone == [] C5_State /\ [][C5_Step]_vars

\* the page processed the done frame of a chat whose reply "Hel" is in the store
C5_Witness ==
  \E s \in Reqs :
    /\ sub[s].exit = "doneFrame"
    /\ rl[s].saved[1].content = Hel
    /\ InStore(rl[s].saved[1])
    /\ ~isGenerating

\* C6: every accepted submission whose response ended has returned the page to
\* Idle: when no submission is in flight, isGenerating is false.
C6_EndedMeansIdle ==
  (\A s \in Reqs : sub[s].pc \in {"idle", "done"}) => ~isGenerating

\* C7: at most one chat stream at a time is consumed into the page's streaming
\* buffer.
C7_OneStreamPerView == Cardinality({ s \in Reqs : sub[s].pc = "read" }) <= 1

\* the page takes text of the response of submission s off the connection
Consumes(s) == sub[s].pc = "read" /\ wire'[s] # wire[s] /\ rl' = rl /\ sc' = sc

\* C8: once the page shows another conversation than the one a stream was
\* started for, no frame of that stream changes the streaming buffer or the
\* generating flag.
C8_NoFrameAfterNavigate ==
  [][\A s \in Reqs :
       Consumes(s) /\ sub[s].activeConversationId # route =>
         streamingMessage' = streamingMessage /\ isGenerating' = isGenerating]_vars

\* C9: the step in which the page processes an error frame leaves the page Idle
\* with an empty streaming buffer.
C9_ErrorClearsBuffer ==
  [][\A s \in Reqs :
       sub'[s].exit = "errorFrame" /\ sub[s].exit # "errorFrame" =>
         isGenerating' = FALSE /\ streamingMessage' = Empty]_vars

WhitespaceOnly(text) == \A i \in 1 .. Len(text) : text[i] = " "

\* C10: a submit while the page is Streaming, or with an empty or
\* whitespace-only input, changes nothing: no conversation, no message, no chat
\* request, and the input, the generating flag and the streaming buffer stay.
C10_RejectedSubmitNoOp ==
  [][(tick' # tick /\ (isGenerating \/ WhitespaceOnly(input))) =>
       UNCHANGED << conversations, messages, nextConv, nextMsg, sc, rl, wire,
                    route, input, isGenerating, streamingMessage, sub >>]_vars

\* the page is Streaming with text in the input, and of the submits so far an
\* odd number was rejected (each accepted one holds a submission slot)
C10_Witness ==
  /\ isGenerating
  /\ Trim(input) # Empty
  /\ tick # Cardinality({ s \in Reqs : sub[s].pc # "idle" }) % 2

\* the stored messages of conversation c, by id
StoredIds(c) == { messages[i].id : i \in { j \in 1 .. Len(messages) : messages[j].conversationId = c } }

C11_State ==
  \A c \in ConvIds :
    LET got == getMessages(c)
    IN  /\ \A i \in 1 .. Len(got) : InStore(got[i]) /\ got[i].conversationId = c
        /\ { got[i].id : i \in 1 .. Len(got) } = StoredIds(c)
        /\ Len(got) = Cardinality(StoredIds(c))
        /\ \A i, j \in 1 .. Len(got) : i < j => got[i].timestamp <= got[j].timestamp

\* C11: in every reachable state of the store and for every conversation id C,
\* getMessages(C) holds each stored message whose conversationId is C exactly
\* once and nothing else, in non-decreasing timestamp order.
C11_GetMessages == [] C11_State

\* conversation 1 holds two messages of different times while conversation 2
\* holds one
C11_Witness ==
  /\ Len(getMessages(1)) = 2
  /\ getMessages(1)[1].timestamp < getMessages(1)[2].timestamp
  /\ Len(getMessages(2)) = 1

Range(q) == { q[i] : i \in 1 .. Len(q) }

C12_Step ==
  \A id \in ConvIds :
    HttpDeleteConversation(id) =>
      IF \E c \in Range(conversations) : c.id = id
      THEN /\ res' = 204
           /\ \A c \in Range(getConversations') : c.id # id
           /\ \A m \in Range(messages') : m.conversationId # id
           /\ Range(conversations') = { c \in Range(conversations) : c.id # id }
           /\ \A c \in ConvIds \ {id} : getMessages(c)' = getMessages(c)
      ELSE /\ res' = 404
           /\ UNCHANGED << conversations, messages, nextConv, nextMsg >>

\* C12: deleting an existing conversation C removes it from getConversations()
\* and leaves no stored message of C, while the other conversations and their
\* messages stay as they were; deleting an id that is not stored reports
\* failure and changes nothing.
C12_CascadeDelete == [][C12_Step]_vars

\* a conversation was just deleted together with a message of it, and another
\* conversation and a message of that one are still stored
C12_Witness ==
  /\ res = 204
  /\ Len(conversations) = 1
  /\ Len(messages) > 0
  /\ Len(messages) < nextMsg - 1
  /\ \A m \in Range(messages) : m.conversationId = conversations[1].id

C13_State ==
  \A i, j \in 1 .. Len(models) :
    (models[i].name = models[j].name \/ models[i].id = models[j].id) => i = j

C13_Step ==
  Len(models') >= Len(models) =>
    \A i \in 1 .. Len(models) :
      /\ models'[i].id = models[i].id
      /\ models'[i].name = models[i].name

\* C13: whatever the order of catalog syncs, pulls and model deletes, no two
\* model records have the same name, and a step that deletes nothing keeps
\* every record, with its id and name, where it was: createOrUpdateModel on a
\* stored name updates that record in place.
C13_UniqueModelName == [] C13_State /\ [][C13_Step]_vars

\* the record of "b" was created first (id 1) without a size and has since been
\* given a size by a second createOrUpdateModel of the same name
C13_Witness ==
  \E i \in 1 .. Len(models) :
    models[i].name = "b" /\ models[i].id = 1 /\ models[i].size = << "4", "GB" >>

C14_State ==
  \A i, j \in 1 .. Len(settings) : settings[i].key = settings[j].key => i = j

C14_Step ==
  \A key \in SettingKeys, body \in SettingBodies :
    HttpPutSetting(key, body) /\ ValidSetting(body) =>
      IF \E r \in Range(settings) : r.key = key
      THEN /\ Len(settings') = Len(settings)
           /\ \A i \in 1 .. Len(settings) :
                IF settings[i].key = key
                THEN /\ settings'[i].id = settings[i].id
                     /\ settings'[i].key = key
                     /\ settings'[i].value = body.value
                ELSE settings'[i] = settings[i]
      ELSE /\ Len(settings') = Len(settings) + 1
           /\ SubSeq(settings', 1, Len(settings)) = settings
           /\ Last(settings').key = key
           /\ Last(settings').value = body.value

\* C14: in every reachable state no two setting records have the same key;
\* setSetting on a stored key keeps the record's id, puts the new value in it
\* and leaves the number of settings and the other settings as they were;
\* setSetting on a new key adds exactly one record, with that key and value.
C14_SettingUpsert == [] C14_State /\ [][C14_Step]_vars

\* the default setting "temperature" was given a new value and kept its id, and
\* the new key "theme" was added as a sixth record and then set again
C14_Witness ==
  /\ Len(settings) = Len(defaultSettings) + 1
  /\ settings[2].key = "temperature" /\ settings[2].id = 2 /\ settings[2].value = "0.9"
  /\ Last(settings).key = "theme" /\ Last(settings).value = "0.9"
  /\ res = 200

C16_AppendRefreshesUpdatedAt ==
  [][\A i \in Len(messages) + 1 .. Len(messages') :
       \A c \in Range(conversations') :
         c.id = messages'[i].conversationId => c.updatedAt >= messages'[i].timestamp]_vars

C17_State ==
  LET got == getConversations
  IN  /\ Len(got) = Len(conversations)
      /\ Range(got) = Range(conversations)
      /\ \A i, j \in 1 .. Len(got) : i < j => got[i].updatedAt >= got[j].updatedAt

\* C17: getConversations() returns every stored conversation exactly once, in
\* non-increasing updatedAt order.
C17_GetConversations == [] C17_State

\* two conversations are stored; the one created first was updated last and is
\* returned first
C17_Witness ==
  /\ Len(conversations) = 2
  /\ conversations[1].createdAt < conversations[2].createdAt
  /\ getConversations[1] = conversations[1]
  /\ getConversations[1].updatedAt > getConversations[2].updatedAt

\* the fragments of the valid lines of a body, in order, up to the first line
\* with done
RECURSIVE Frags(_)
Frags(text) ==
  IF text = << >> THEN << >>
  ELSE IF Head(text).k # "json" THEN Frags(Tail(text))
  ELSE (IF Head(text).v.content # Empty THEN << Head(text).v.content >> ELSE << >>)
       \o (IF Head(text).v.done THEN << >> ELSE Frags(Tail(text)))

C18_Step ==
  sc[1].pc = "read" /\ sc'[1].pc \in {"read", "returned"} =>
    sc'[1].yielded \o (IF sc'[1].pc = "read" THEN Frags(sc'[1].body) ELSE << >>)
      = sc[1].yielded \o Frags(sc[1].body)

C18_Return ==
  sc[1].pc = "read" /\ sc'[1].pc = "returned" =>
    \/ sc[1].body = << >>
    \/ \E i \in 1 .. Len(sc[1].body) - Len(sc'[1].body) :
         sc[1].body[i].k = "json" /\ sc[1].body[i].v.done

C19_Step ==
  \A id \in ConvIds :
    ~HasConversation(id) =>
      /\ HttpDeleteConversation(id) =>
           res' = 404 /\ UNCHANGED << conversations, messages >>
      /\ \A body \in MessageBodies :
           HttpPostMessage(id, body) /\ ValidMessage(body) =>
             res' = 404 /\ UNCHANGED << conversations, messages >>

\* C19: a DELETE of a conversation or a POST of a well-formed message that names
\* a conversation id not in the store is answered with 404 and leaves the
\* conversations and the messages as they were.
C19_MissingConversation404 == [][C19_Step]_vars

\* bodies that do not fit the schema of their route: a required field is
\* missing, or the role is none of the two the schema lists
BadConversation(body) == \E f \in {"title", "model"} : f \notin DOMAIN body
BadMessage(body) ==
  \/ \E f \in {"role", "content"} : f \notin DOMAIN body
  \/ body.role \notin {"user", "assistant"}
BadSetting(body) == "value" \notin DOMAIN body

Records == << conversations, messages, nextConv, nextMsg, models, nextModel,
              settings, nextSetting >>

C20_Step ==
  /\ \A body \in ConversationBodies :
       HttpPostConversation(body) /\ BadConversation(body) =>
         res' = 400 /\ UNCHANGED Records
  /\ \A id \in ConvIds, body \in MessageBodies :
       HttpPostMessage(id, body) /\ BadMessage(body) =>
         res' = 400 /\ UNCHANGED Records
  /\ \A key \in SettingKeys, body \in SettingBodies :
       HttpPutSetting(key, body) /\ BadSetting(body) =>
         res' = 400 /\ UNCHANGED Records

\* C20: POST /api/conversations, POST /api/conversations/:id/messages and
\* PUT /api/settings/:key with a body that does not fit the route's schema
\* answer 400 and leave every record of the store as it was.
C20_InvalidBody400 == [][C20_Step]_vars

\* a request was refused with 400 by a store that holds a conversation, a
\* message and a changed setting
C20_Witness ==
  /\ res = 400
  /\ Len(conversations) > 0 /\ Len(messages) > 0
  /\ settings # defaultSettings

C21_Step ==
  \A s \in Reqs :
    sub[s].pc = "newConv" /\ sub'[s].pc = "postMsg" =>
      LET m == sub[s].messageText
          t == Last(conversations').title
      IN  /\ Len(conversations') = Len(conversations) + 1
          /\ Len(m) <= 50 => t = m
          /\ Len(m) > 50 =>
               /\ Len(t) = 51
               /\ \A i \in 1 .. 50 : t[i] = m[i]
               /\ t[51] = "..."

\* C21: the conversation the page creates for a first message m gets the title
\* m when m has at most 50 characters, and the first 50 characters of m followed
\* by the ellipsis marker when m has more; a title is never longer than 50
\* characters plus the marker.
C21_TitleDerivation ==
  [] (\A i \in 1 .. Len(conversations) : Len(conversations[i].title) <= 51)
  /\ [][C21_Step]_vars

\* the store holds a conversation made from a first message of 60 characters
\* and one made from a first message of 30 characters
C21_Witness ==
  /\ \E i \in 1 .. Len(conversations) :
       conversations[i].title = SubSeq(Chars(60), 1, 50) \o << "..." >>
  /\ \E i \in 1 .. Len(conversations) : conversations[i].title = Chars(30)

\* the answers to GET /api/tags that give listModels no list: no answer, a
\* status that is no success, a body that is no JSON
FailedTags == { [outcome |-> o] : o \in {"unreachable", "status", "unparsable"} }

C22_State == \A response \in FailedTags : listModels(response) = << >>

C22_Step ==
  \A response \in FailedTags :
    HttpGetModels(response) => res' = 200 /\ models' = models

\* C22: listModels gives the empty list when the backend cannot be reached,
\* answers with a status that is no success or sends a body that does not
\* parse, and GET /api/models then answers 200 and leaves the stored models
\* as they were.
C22_ListModelsDegrades == [] C22_State /\ [][C22_Step]_vars

\* GET /api/models was answered while the backend could not be reached, and
\* the store still holds two models
C22_Witness ==
  /\ asked = Asked("/api/tags", "unreachable")
  /\ res = 200
  /\ health = << >>
  /\ Len(models) = 2

NamesOf(list) == { list[i].name : i \in 1 .. Len(list) }

C23_Step ==
  \A response \in TagsResponses :
    HttpGetModels(response) =>
      /\ \A name \in NamesOf(listModels(response)) :
           /\ Cardinality({ i \in 1 .. Len(models') : models'[i].name = name }) = 1
           /\ \A i \in 1 .. Len(models') :
                models'[i].name = name => models'[i].isAvailable
      /\ \A i \in 1 .. Len(models) :
           \E j \in 1 .. Len(models') :
             models'[j].id = models[i].id /\ models'[j].name = models[i].name

\* C23: when GET /api/models completes, every model name the backend listed has
\* exactly one record, with isAvailable true, and every record the store held
\* before the sync is still there under its id and name.
C23_SyncUpserts == [][C23_Step]_vars

\* a sync of a backend that lists "b" twice ran on a store that held "a" from
\* a pull: "a" is kept as record 1, "b" is one record with the second size
C23_Witness ==
  /\ asked = Asked("/api/tags", "ok")
  /\ health = << >>
  /\ Len(models) = 2
  /\ models[1].name = "a" /\ models[1].size = Null
  /\ models[2].name = "b" /\ models[2].size = << "4", "GB" >>

C24_Step ==
  \A name \in ModelNames, outcome \in Outcomes :
    HttpDeleteModel(name, outcome) =>
      IF outcome = "ok"
      THEN /\ res' = 204
           /\ models' = SelectSeq(models, LAMBDA m : m.name # name)
      ELSE /\ res' = 500
           /\ models' = models

\* C24: DELETE /api/models/:name answers 204 and removes the record of the name
\* (and no other) when the backend answered the delete with a success status;
\* when the backend answers with another status or cannot be reached the
\* answer is 500 and the model records are as they were.
C24_DeleteModel == [][C24_Step]_vars

\* a delete that the backend could not be asked for ended with 500 and left
\* both records in the store
C24_Witness ==
  /\ asked = Asked("/api/delete", "unreachable")
  /\ res = 500
  /\ Len(models) = 2

C25_Step ==
  \A body \in PullBodies, outcome \in Outcomes :
    HttpPullModel(body, outcome) =>
      IF "name" \notin DOMAIN body
      THEN res' = 400 /\ asked' = << >> /\ models' = models
      ELSE /\ asked' = Asked("/api/pull", outcome)
           /\ IF outcome = "ok"
              THEN /\ res' = 200
                   /\ Cardinality({ i \in 1 .. Len(models') :
                                      models'[i].name = body.name }) = 1
                   /\ \A i \in 1 .. Len(models') :
                        models'[i].name = body.name => models'[i].isAvailable
                   /\ \A i \in 1 .. Len(models) :
                        /\ models'[i].id = models[i].id
                        /\ models[i].name # body.name => models'[i] = models[i]
                   /\ Len(models') =
                        Len(models) + (IF body.name \in NamesOf(models) THEN 0 ELSE 1)
              ELSE res' = 500 /\ models' = models

\* C25: POST /api/models/pull with a name answers 200 and leaves exactly one
\* record of the name, available, when the backend answered the pull with a
\* success status (every other record is as it was); it answers 500 and leaves
\* the records alone when the backend answers with another status or cannot be
\* reached; with no name in the body it answers 400, asks the backend nothing
\* and leaves the records alone.
C25_PullModel == [][C25_Step]_vars

\* a pull with no name was refused with 400 by a store that holds a model
C25_Witness ==
  /\ res = 400
  /\ asked = << >>
  /\ Len(models) > 0

C26_State ==
  \A outcome \in Outcomes :
    /\ checkHealth(outcome) \in BOOLEAN
    /\ pullModel(outcome) \in BOOLEAN
    /\ ollamaDeleteModel(outcome) \in BOOLEAN
    /\ outcome = "unreachable" =>
         ~checkHealth(outcome) /\ ~pullModel(outcome) /\ ~ollamaDeleteModel(outcome)

C26_Step ==
  \A outcome \in Outcomes :
    HttpGetHealth(outcome) =>
      /\ res' = 200
      /\ health' \in { << TRUE >>, << FALSE >> }
      /\ outcome = "unreachable" => health' = << FALSE >>

\* C26: checkHealth, pullModel and deleteModel give a boolean however the fetch
\* ends, and false when the backend cannot be reached; GET /api/health always
\* answers 200 with a boolean, which is false when the backend cannot be reached.
C26_NeverThrows == [] C26_State /\ [][C26_Step]_vars

\* GET /api/health answered false when the backend could not be reached
C26_Witness ==
  /\ asked = Asked("/api/tags", "unreachable")
  /\ health = << FALSE >>
  /\ res = 200

\* a text in which the second half of a JSON text stands for the whole of it:
\* what is still to be read when the last read ended inside that JSON text and
\* its first half was carried over
Joined(text) ==
  [i \in 1 .. Len(text) |-> IF text[i].k = "tail" THEN Json(text[i].v) ELSE text[i]]

C27_Step ==
  \A r \in Reqs :
    sc[r].pc = "read" /\ sc'[r].pc \in {"read", "returned"} =>
      sc'[r].yielded
          \o (IF sc'[r].pc = "read" THEN Frags(Joined(sc'[r].body)) ELSE << >>)
        = sc[r].yielded \o Frags(Joined(sc[r].body))

\* C27: wherever the reads of the backend's body end, inside a JSON line
\* included, what streamChat has yielded followed by the fragments of the lines
\* still to come (a line begun in the last read counts whole) stays the same
\* sequence: every line yields its fragment exactly once.
C27_ReadsDoNotMatter == [][C27_Step]_vars

C28_Step ==
  \A s \in Reqs :
    /\ sub[s].pc = "read" /\ sub'[s].pc = "read" /\ rl'[s] = rl[s]
         /\ wire'[s] # wire[s] =>
         streamingMessage' \o Concat(Frags(Joined(wire'[s])))
           = streamingMessage \o Concat(Frags(Joined(wire[s])))
    /\ sub[s].pc = "read" /\ sub'[s].pc = "done" => sub'[s].exit # "eof"

\* C28: wherever the reads of the event stream end, inside a frame included, a
\* read that leaves the page Streaming keeps "the streaming buffer followed by
\* the content of the frames sent and not yet read" the same text, so the
\* buffer is the concatenation of the content frames received; and the page
\* never leaves its read loop at the end of the response, because the done or
\* error frame before it is recognised.
C28_BufferFollowsFrames == [][C28_Step]_vars

\* the store handed the id out and holds no conversation under it: the
\* conversation was deleted (ids are never handed out twice)
Deleted(id) == id < nextConv /\ ~HasConversation(id)

\* C29: whatever chat streams and message POSTs are under way when a
\* conversation is deleted, no stored message ever refers to a deleted
\* conversation.
C29_NoMessageOfDeleted ==
  \A i \in 1 .. Len(messages) : ~Deleted(messages[i].conversationId)

\* role and content of the stored messages of a conversation, oldest first
History(id) ==
  [i \in 1 .. Len(getMessages(id)) |->
     [role |-> getMessages(id)[i].role, content |-> getMessages(id)[i].content]]

C30_Step ==
  \A s \in Reqs :
    sub[s].pc = "fetch" /\ sub'[s].pc = "read" =>
      /\ rl'[s].chatMessages = History(sub[s].activeConversationId)
      /\ rl'[s].chatMessages # << >>
      /\ Last(rl'[s].chatMessages) = [role |-> "user", content |-> sub[s].messageText]
      /\ \E i \in 1 .. Len(messages) :
           /\ messages[i].conversationId = sub[s].activeConversationId
           /\ messages[i].role = "user"
           /\ messages[i].content = sub[s].messageText

\* C30: when the relay opens the chat of a submission, the user message of that
\* submission is already stored, and the message list the relay hands to the
\* backend is the stored history of the conversation, oldest first, with that
\* user message as its last element.
C30_PromptIsLast == [][C30_Step]_vars

\* the tokens the step took from the body of request 1
Taken == SubSeq(sc[1].body, 1, Len(sc[1].body) - Len(sc'[1].body))

DoneLineIn(text) == \E i \in 1 .. Len(text) : text[i].k = "json" /\ text[i].v.done

C31_Step ==
  /\ sc[1].pc = "read" /\ sc'[1].pc = "read" => ~DoneLineIn(Taken)
  /\ sc[1].pc = "read" /\ sc'[1].pc = "returned" =>
       /\ sc[1].body = << >> \/ DoneLineIn(Taken)
       /\ sc'[1].yielded = sc[1].yielded \o Frags(Taken)
       /\ rl'[1].pc = "saved"
       /\ messages' = Append(messages, Last(rl'[1].saved))
       /\ Last(messages').role = "assistant"
       /\ Last(messages').content = Concat(sc'[1].yielded)
       /\ rl'[1].frames = ContentFrames(sc'[1].yielded)
  /\ sc[1].pc = "returned" => sc'[1] = sc[1]
  /\ rl[1].pc = "saved" /\ rl'[1] # rl[1] =>
       /\ rl'[1].pc = "closed"
       /\ rl'[1].frames = Append(rl[1].frames, DoneFrame)
       /\ messages' = messages

C32_Step ==
  \A r \in Reqs :
    sc[r].pc # "thrown" /\ sc'[r].pc = "thrown" =>
      /\ messages' = messages
      /\ \A q \in Reqs \ {r} : rl'[q] = rl[q] /\ sc'[q] = sc[q] /\ wire'[q] = wire[q]

C32_State ==
  \A r, q \in Reqs :
    Failed(r) /\ q # r =>
      /\ SelectSeq(rl[q].frames, IsContent) = ContentFrames(sc[q].yielded)
      /\ rl[q].pc = "streaming" => sc[q].pc \in {"fetch", "read"}
      /\ NormalEnd(q) =>
           /\ rl[q].pc \in {"saved", "closed"}
           /\ Len(rl[q].saved) = 1
           /\ rl[q].saved[1].content = Concat(sc[q].yielded)
      /\ sc[q].pc = "read" /\ sc[q].body = << >> => ENABLED StreamEof(q)
      /\ rl[q].pc = "saved" => ENABLED RelayDone(q)
      /\ rl[q].pc = "idle" => ENABLED RelayStart(q, 1)

\* C32: the step in which the inference stream of one chat request fails
\* leaves the store and the relay, the generator and the response of every
\* other request as they were; and beside a failed request every other one is
\* still served: its frames are those of its own fragments, a stream that ends
\* normally has its own reply stored, and its next step (a new chat, the end of
\* its stream, its done frame) can be taken.
C32_FailureIsLocal == [] C32_State /\ [][C32_Step]_vars

\* request 1 failed before it yielded anything; request 2 yielded "Hel", "lo",
\* ended normally, stored "Hello" and sent its done frame
C32_Witness ==
  /\ Failed(1) /\ sc[1].yielded = << >> /\ rl[1].frames = << ErrorFrame >>
  /\ NormalEnd(2) /\ sc[2].yielded = << Hel, lo >>
  /\ rl[2].pc = "closed" /\ Last(rl[2].frames) = DoneFrame
  /\ InStore(rl[2].saved[1]) /\ rl[2].saved[1].content = Hel \o lo

DefaultPairs ==
  { << "ollama_url", "http://localhost:11434" >>,
    << "temperature", "0.7" >>,
    << "max_tokens", "1024" >>,
    << "system_prompt", "You are a helpful AI assistant." >>,
    << "auto_save", "true" >> }

PairsOf(sets) == { << sets[i].key, sets[i].value >> : i \in 1 .. Len(sets) }

C33_Seeded ==
  /\ PairsOf(settings) = DefaultPairs
  /\ Len(settings) = 5
  /\ res = NoStatus /\ asked = << >>

C33_Present ==
  \A pair \in DefaultPairs :
    Cardinality({ i \in 1 .. Len(settings) : settings[i].key = pair[1] }) = 1

\* C33: before any request is served the settings are exactly the five
\* defaults, ollama_url, temperature, max_tokens, system_prompt and auto_save,
\* each with its default value; and in every reachable state each of these
\* five keys has a record (exactly one).
C33_DefaultsPresent == C33_Seeded /\ [] C33_Present

\* temperature was overwritten and a sixth key was added; the five are there
C33_Witness ==
  /\ Len(settings) = 6
  /\ << "temperature", "0.9" >> \in PairsOf(settings)
  /\ << "theme", "dark" >> \in PairsOf(settings)
  /\ C33_Present

\* submission s fails in this step before its chat request is sent
FailsEarly(s) == sub[s].pc \in {"newConv", "postMsg"} /\ sub'[s].pc = "done"

Alone(s) == \A q \in Reqs \ {s} : sub[q].pc \in {"idle", "done"}

C34_Step ==
  \A s \in Reqs :
    /\ FailsEarly(s) =>
         /\ rl'[s] = IdleRelay /\ sc'[s] = IdleStream
         /\ messages' = messages
         /\ Alone(s) /\ ~isGenerating => ~isGenerating' /\ streamingMessage' = Empty
    /\ sub[s].pc = "done" /\ rl[s].pc = "idle" =>
         sub'[s] = sub[s] /\ rl'[s] = rl[s]

\* C34: when the request that creates the conversation, or the one that stores
\* the user message, fails for a submission, then no chat request has been or
\* will be sent for it, no message is stored by the failure, and, no other
\* submission being under way and none having left the view in Streaming, the
\* view is Idle with an empty streaming buffer.
C34_EarlyFailureIsClean == [][C34_Step]_vars

\* the handler of a new-chat click is called in this step
Clicked(s) == sub[s].pc = "idle" /\ sub'[s].messageText = ClickEvent

C35_Step ==
  \A s \in Reqs :
    Clicked(s) /\ sub'[s].pc = "done" =>
      /\ Len(conversations') = Len(conversations) + 1
      /\ Last(conversations').title = << "New Chat" >>
      /\ Last(conversations').model = currentModel
      /\ route' = Last(conversations').id

\* C35: when the handler of a click on the sidebar's new-chat button has
\* finished, exactly one conversation has been added, its title is 'New Chat',
\* its model is the selected model, and the page is on that conversation.
C35_NewChatCreates == [][C35_Step]_vars

====
